---- MODULE Spec2Model ----
(***************************************************************************)
(* pyawg: the validated command dispatch of the two vendor classes         *)
(* RigolDG1000Z (rigol.py) and SiglentSDG1000X (siglent.py).               *)
(*                                                                         *)
(* A device object is one of the two classes.  Every public method checks  *)
(* its arguments with an if/elif chain, formats one command with an        *)
(* f-string and hands it to the transport inside a try/except block.  The  *)
(* state is the transport's log of the commands it was handed and the      *)
(* record of the last call (arguments, outcome, log records emitted).      *)
(***************************************************************************)
EXTENDS Integers, Sequences, FiniteSets, TLC

VARIABLES vendor, sent, last, ncalls

vars == <<vendor, sent, last, ncalls>>

\* Longest session of calls on one device object explored by Spec.
MaxCalls == 2

(***************************************************************************)
(* Python values.  Every value is a record of one shape: t is the name of  *)
(* type(x), n the number it carries, s the text it carries.  A float       *)
(* carries its value in halves (n = 5 is 2.5), which binary floating point *)
(* represents and multiplies exactly; s = "nan" marks float('nan').  An    *)
(* enumeration member carries its wire token (.value) in s.                *)
(***************************************************************************)
PInt(n) == [t |-> "int", n |-> n, s |-> ""]
PFloat(h) == [t |-> "float", n |-> h, s |-> ""]
PNaN == [t |-> "float", n |-> 0, s |-> "nan"]
PBool(b) == [t |-> "bool", n |-> IF b THEN 1 ELSE 0, s |-> ""]
PString(s) == [t |-> "str", n |-> 0, s |-> s]
PNone == [t |-> "NoneType", n |-> 0, s |-> ""]
Member(cls, value) == [t |-> cls, n |-> 0, s |-> value]

\* enums.py
AmplitudeUnit == {Member("AmplitudeUnit", v) : v \in {"VPP", "VRMS", "DBM"}}
FrequencyUnit == {Member("FrequencyUnit", v) : v \in {"HZ", "KHZ", "MHZ"}}
BurstModeRigol == {Member("BurstModeRigol", v) : v \in {"TRIG", "INF", "GAT"}}
BurstModeSiglent == {Member("BurstModeSiglent", v) : v \in {"NCYC", "GATE"}}
BurstTriggerSource == {Member("BurstTriggerSource", v) : v \in {"INT", "EXT", "MAN"}}
WaveformType ==
    {Member("WaveformType", v) : v \in {"SIN", "SQU", "RAMP", "PULS", "NOIS", "DC", "ARB"}}
\* The two members of OutputLoad that set_output_load names.
OutputLoad == {Member("OutputLoad", v) : v \in {"HZ", "INF"}}

\* The number of halves in a numeric value (an int n is 2n halves).
Halves(x) == IF x.t = "float" THEN x.n ELSE 2 * x.n
IsNaN(x) == x.t = "float" /\ x.s = "nan"

\* Python's a < b and a <= b on int and float: every comparison with NaN is False.
Lt(a, b) == ~IsNaN(a) /\ ~IsNaN(b) /\ Halves(a) < Halves(b)
Le(a, b) == ~IsNaN(a) /\ ~IsNaN(b) /\ Halves(a) <= Halves(b)

\* Python's abs(x) on int and float.
Abs(x) == IF IsNaN(x) THEN x ELSE [x EXCEPT !.n = IF x.n < 0 THEN -x.n ELSE x.n]

\* Python's x * k for an int k: int * int is an int, float * int a float.
Times(x, k) == IF IsNaN(x) THEN x ELSE [x EXCEPT !.n = x.n * k]

\* The text of a value inside an f-string, "{x}", which is str(x).
Format(x) ==
    CASE x.t = "int" -> ToString(x.n)
      [] x.t = "float" ->
           IF IsNaN(x) THEN "nan"
           ELSE LET m == IF x.n < 0 THEN -x.n ELSE x.n IN
                (IF x.n < 0 THEN "-" ELSE "") \o ToString(m \div 2)
                    \o (IF m % 2 = 0 THEN ".0" ELSE ".5")
      [] x.t = "bool" -> IF x.n = 1 THEN "True" ELSE "False"
      [] x.t = "str" -> x.s
      [] x.t = "NoneType" -> "None"

(***************************************************************************)
(* The transport (base.AWG): write(command) and query(command) take one    *)
(* command each and may fail.  The log keeps every command handed over,    *)
(* whether or not the transport then failed.                               *)
(***************************************************************************)
write(log, command) == Append(log, [kind |-> "write", cmd |-> command])
query(log, command) == Append(log, [kind |-> "query", cmd |-> command])

NoError == ""
NoCall ==
    [op |-> "", args |-> <<>>, transport |-> "none", outcome |-> "",
     ret |-> PNone, logrec |-> <<>>, response |-> <<>>]

\* What the message of a method's logging.debug call names: the channel and
\* the value written, the channel alone (trigger_burst), or neither (sync_phase,
\* "Phases of both the channels have been synchronized").  The same in both classes.
DebugRecordNames(op) ==
    IF op = "sync_phase" THEN {}
    ELSE IF op = "trigger_burst" THEN {"channel"}
    ELSE {"channel", "value"}

\* A call that ends in its argument guard: the raise precedes the try block.
Raise(op, args, exc) ==
    /\ sent' = sent
    /\ last' = [op |-> op, args |-> args, transport |-> "none", outcome |-> exc,
                ret |-> PNone, logrec |-> <<>>, response |-> <<>>]
    /\ ncalls' = ncalls + 1
    /\ UNCHANGED vendor

\* TryWrite with the debug record emitted ahead of the write.
TryWrite_log_first(op, args, command, ok, reraise) ==
    /\ sent' = Append(sent, [kind |-> "write", cmd |-> command])
    /\ last' = [op |-> op, args |-> args,
                transport |-> IF ok THEN "ok" ELSE "failed",
                outcome |-> IF ok \/ ~reraise THEN "return" ELSE "TransportFailure",
                ret |-> PNone,
                logrec |-> IF ok THEN <<"debug">> ELSE <<"debug", "error">>,
                response |-> <<>>]
    /\ ncalls' = ncalls + 1
    /\ UNCHANGED vendor

\* TryWrite on a connection that drops the command following a failed write.
TryWrite_after_failure(op, args, command, ok, reraise) ==
    /\ sent' = IF last.transport = "failed" THEN sent
               ELSE Append(sent, [kind |-> "write", cmd |-> command])
    /\ last' = [op |-> op, args |-> args,
                transport |-> IF ok THEN "ok" ELSE "failed",
                outcome |-> IF ok \/ ~reraise THEN "return" ELSE "TransportFailure",
                ret |-> PNone,
                logrec |-> IF ok THEN <<"debug">> ELSE <<"error">>,
                response |-> <<>>]
    /\ ncalls' = ncalls + 1
    /\ UNCHANGED vendor

\* TryWrite with the write repeated once after a failure.
TryWrite_retry(op, args, command, ok, reraise) ==
    /\ sent' = IF ok THEN Append(sent, [kind |-> "write", cmd |-> command])
               ELSE sent \o <<[kind |-> "write", cmd |-> command],
                              [kind |-> "write", cmd |-> command]>>
    /\ last' = [op |-> op, args |-> args,
                transport |-> IF ok THEN "ok" ELSE "failed",
                outcome |-> IF ok \/ ~reraise THEN "return" ELSE "TransportFailure",
                ret |-> PNone,
                logrec |-> IF ok THEN <<"debug">> ELSE <<"error">>,
                response |-> <<>>]
    /\ ncalls' = ncalls + 1
    /\ UNCHANGED vendor

\* try: self.write(command); logging.debug(...)
\* except Exception: logging.error(...), followed by a bare raise when reraise.
TryWrite(op, args, command, ok, reraise) ==
    /\ sent' = write(sent, command)
    /\ last' = [op |-> op, args |-> args,
                transport |-> IF ok THEN "ok" ELSE "failed",
                outcome |-> IF ok \/ ~reraise THEN "return" ELSE "TransportFailure",
                ret |-> PNone,
                logrec |-> IF ok THEN <<"debug">> ELSE <<"error">>,
                response |-> <<>>]
    /\ ncalls' = ncalls + 1
    /\ UNCHANGED vendor

\* The channel compared by value alone: not (channel == 1 or channel == 2).
InvalidChannel_by_value(channel) ==
    ~(channel.t \in {"int", "float", "bool"} /\ channel.s # "nan" /\ Halves(channel) \in {2, 4})

\* if type(channel) is not int or not (channel == 1 or channel == 2)
InvalidChannel(channel) == channel.t # "int" \/ ~(channel.n = 1 \/ channel.n = 2)

\* type(x) is not float and type(x) is not int
NotNumber(x) == x.t # "float" /\ x.t # "int"

Init ==
    /\ vendor \in {"Rigol", "Siglent"}
    /\ sent = <<>>
    /\ last = NoCall
    /\ ncalls = 0

(***************************************************************************)
(* RigolDG1000Z (rigol.py).  For each method: its argument guard (the      *)
(* if/elif chain, in order), its command (the f-string) and the call.  D   *)
(* is the record of the sets the arguments are drawn from.                 *)
(***************************************************************************)
\* The range check of set_amplitude with the bounds excluded.
Rigol_set_amplitude_guard_open(channel, amplitude, unit) ==
    IF InvalidChannel(channel) THEN "InvalidChannelNumber"
    ELSE IF NotNumber(amplitude) THEN "TypeError"
    ELSE IF ~(Lt(PInt(-10), amplitude) /\ Lt(amplitude, PInt(10))) THEN "ValueError"
    ELSE IF unit.t # "AmplitudeUnit" THEN "TypeError"
    ELSE NoError

Rigol_set_amplitude_guard(channel, amplitude, unit) ==
    IF InvalidChannel(channel) THEN "InvalidChannelNumber"
    ELSE IF NotNumber(amplitude) THEN "TypeError"
    ELSE IF ~(Le(PInt(-10), amplitude) /\ Le(amplitude, PInt(10))) THEN "ValueError"
    ELSE IF unit.t # "AmplitudeUnit" THEN "TypeError"
    ELSE NoError

Rigol_set_amplitude_command(channel, amplitude, unit) ==
    "SOUR" \o Format(channel) \o ":VOLT " \o Format(amplitude) \o unit.s

\* set_amplitude with no raise in its except block.
Rigol_set_amplitude_swallow(D) ==
    /\ vendor = "Rigol" /\ ncalls < D.calls
    /\ \E channel \in D.channel, amplitude \in D.amplitude, unit \in D.amplitude_unit,
          ok \in BOOLEAN :
         LET exc == Rigol_set_amplitude_guard(channel, amplitude, unit)
             args == <<channel, amplitude, unit>>
         IN  IF exc # NoError THEN Raise("set_amplitude", args, exc)
             ELSE TryWrite("set_amplitude", args,
                           Rigol_set_amplitude_command(channel, amplitude, unit), ok, FALSE)

Rigol_set_amplitude(D) ==
    /\ vendor = "Rigol" /\ ncalls < D.calls
    /\ \E channel \in D.channel, amplitude \in D.amplitude, unit \in D.amplitude_unit,
          ok \in BOOLEAN :
         LET exc == Rigol_set_amplitude_guard(channel, amplitude, unit)
             args == <<channel, amplitude, unit>>
         IN  IF exc # NoError THEN Raise("set_amplitude", args, exc)
             ELSE TryWrite("set_amplitude", args,
                           Rigol_set_amplitude_command(channel, amplitude, unit), ok, TRUE)

\* The range check of set_burst_delay with zero rejected: delay <= 0.
Rigol_set_burst_delay_guard_positive(channel, delay) ==
    IF InvalidChannel(channel) THEN "InvalidChannelNumber"
    ELSE IF NotNumber(delay) THEN "TypeError"
    ELSE IF Le(delay, PInt(0)) THEN "ValueError"
    ELSE NoError

Rigol_set_burst_delay_guard(channel, delay) ==
    IF InvalidChannel(channel) THEN "InvalidChannelNumber"
    ELSE IF NotNumber(delay) THEN "TypeError"
    ELSE IF Lt(delay, PInt(0)) THEN "ValueError"
    ELSE NoError

Rigol_set_burst_delay_command(channel, delay) ==
    "SOUR" \o Format(channel) \o ":BURS:TDEL " \o Format(delay)

\* set_burst_delay with a raise at the end of its except block.
Rigol_set_burst_delay_reraise(D) ==
    /\ vendor = "Rigol" /\ ncalls < D.calls
    /\ \E channel \in D.channel, delay \in D.delay, ok \in BOOLEAN :
         LET exc == Rigol_set_burst_delay_guard(channel, delay)
             args == <<channel, delay>>
         IN  IF exc # NoError THEN Raise("set_burst_delay", args, exc)
             ELSE TryWrite("set_burst_delay", args,
                           Rigol_set_burst_delay_command(channel, delay), ok, TRUE)

Rigol_set_burst_delay(D) ==
    /\ vendor = "Rigol" /\ ncalls < D.calls
    /\ \E channel \in D.channel, delay \in D.delay, ok \in BOOLEAN :
         LET exc == Rigol_set_burst_delay_guard(channel, delay)
             args == <<channel, delay>>
         IN  IF exc # NoError THEN Raise("set_burst_delay", args, exc)
             ELSE TryWrite("set_burst_delay", args,
                           Rigol_set_burst_delay_command(channel, delay), ok, FALSE)

Rigol_set_burst_mode_guard(channel, burst_mode) ==
    IF InvalidChannel(channel) THEN "InvalidChannelNumber"
    ELSE IF burst_mode.t # "BurstModeRigol" THEN "TypeError"
    ELSE NoError

Rigol_set_burst_mode_command(channel, burst_mode) ==
    "SOUR" \o Format(channel) \o ":BURS:MODE " \o burst_mode.s

Rigol_set_burst_mode(D) ==
    /\ vendor = "Rigol" /\ ncalls < D.calls
    /\ \E channel \in D.channel, burst_mode \in D.burst_mode, ok \in BOOLEAN :
         LET exc == Rigol_set_burst_mode_guard(channel, burst_mode)
             args == <<channel, burst_mode>>
         IN  IF exc # NoError THEN Raise("set_burst_mode", args, exc)
             ELSE TryWrite("set_burst_mode", args,
                           Rigol_set_burst_mode_command(channel, burst_mode), ok, FALSE)

Rigol_set_burst_period_guard(channel, period) ==
    IF InvalidChannel(channel) THEN "InvalidChannelNumber"
    ELSE IF NotNumber(period) THEN "TypeError"
    ELSE IF Lt(period, PInt(0)) THEN "ValueError"
    ELSE NoError

Rigol_set_burst_period_command(channel, period) ==
    "SOUR" \o Format(channel) \o ":BURS:INT:PER " \o Format(period)

Rigol_set_burst_period(D) ==
    /\ vendor = "Rigol" /\ ncalls < D.calls
    /\ \E channel \in D.channel, period \in D.period, ok \in BOOLEAN :
         LET exc == Rigol_set_burst_period_guard(channel, period)
             args == <<channel, period>>
         IN  IF exc # NoError THEN Raise("set_burst_period", args, exc)
             ELSE TryWrite("set_burst_period", args,
                           Rigol_set_burst_period_command(channel, period), ok, FALSE)

Rigol_set_burst_state_guard(channel, state) ==
    IF InvalidChannel(channel) THEN "InvalidChannelNumber"
    ELSE IF state.t # "bool" THEN "TypeError"
    ELSE NoError

\* state_str = "ON" if state else "OFF"
Rigol_set_burst_state_command(channel, state) ==
    "SOUR" \o Format(channel) \o ":BURS " \o (IF state.n = 1 THEN "ON" ELSE "OFF")

Rigol_set_burst_state(D) ==
    /\ vendor = "Rigol" /\ ncalls < D.calls
    /\ \E channel \in D.channel, state \in D.state, ok \in BOOLEAN :
         LET exc == Rigol_set_burst_state_guard(channel, state)
             args == <<channel, state>>
         IN  IF exc # NoError THEN Raise("set_burst_state", args, exc)
             ELSE TryWrite("set_burst_state", args,
                           Rigol_set_burst_state_command(channel, state), ok, FALSE)

Rigol_set_burst_trigger_source_guard(channel, trigger_source) ==
    IF InvalidChannel(channel) THEN "InvalidChannelNumber"
    ELSE IF trigger_source.t # "BurstTriggerSource" THEN "TypeError"
    ELSE NoError

Rigol_set_burst_trigger_source_command(channel, trigger_source) ==
    "SOUR" \o Format(channel) \o ":BURS:TRIG:SOUR " \o trigger_source.s

Rigol_set_burst_trigger_source(D) ==
    /\ vendor = "Rigol" /\ ncalls < D.calls
    /\ \E channel \in D.channel, trigger_source \in D.trigger_source, ok \in BOOLEAN :
         LET exc == Rigol_set_burst_trigger_source_guard(channel, trigger_source)
             args == <<channel, trigger_source>>
         IN  IF exc # NoError THEN Raise("set_burst_trigger_source", args, exc)
             ELSE TryWrite("set_burst_trigger_source", args,
                           Rigol_set_burst_trigger_source_command(channel, trigger_source),
                           ok, FALSE)

Rigol_set_frequency_guard(channel, frequency, unit) ==
    IF InvalidChannel(channel) THEN "InvalidChannelNumber"
    ELSE IF NotNumber(frequency) THEN "TypeError"
    ELSE IF Lt(frequency, PInt(0)) THEN "ValueError"
    ELSE IF unit.t # "FrequencyUnit" THEN "TypeError"
    ELSE NoError

Rigol_set_frequency_command(channel, frequency, unit) ==
    "SOUR" \o Format(channel) \o ":FREQ " \o Format(frequency) \o unit.s

Rigol_set_frequency(D) ==
    /\ vendor = "Rigol" /\ ncalls < D.calls
    /\ \E channel \in D.channel, frequency \in D.frequency, unit \in D.frequency_unit,
          ok \in BOOLEAN :
         LET exc == Rigol_set_frequency_guard(channel, frequency, unit)
             args == <<channel, frequency, unit>>
         IN  IF exc # NoError THEN Raise("set_frequency", args, exc)
             ELSE TryWrite("set_frequency", args,
                           Rigol_set_frequency_command(channel, frequency, unit), ok, TRUE)

\* The guard of set_offset with the range check of set_amplitude added.
Rigol_set_offset_guard_ranged(channel, offset_voltage) ==
    IF InvalidChannel(channel) THEN "InvalidChannelNumber"
    ELSE IF NotNumber(offset_voltage) THEN "TypeError"
    ELSE IF ~(Le(PInt(-10), offset_voltage) /\ Le(offset_voltage, PInt(10))) THEN "ValueError"
    ELSE NoError

Rigol_set_offset_guard(channel, offset_voltage) ==
    IF InvalidChannel(channel) THEN "InvalidChannelNumber"
    ELSE IF NotNumber(offset_voltage) THEN "TypeError"
    ELSE NoError

Rigol_set_offset_command(channel, offset_voltage) ==
    "SOUR" \o Format(channel) \o ":VOLT:OFFS " \o Format(offset_voltage)

Rigol_set_offset(D) ==
    /\ vendor = "Rigol" /\ ncalls < D.calls
    /\ \E channel \in D.channel, offset_voltage \in D.offset_voltage, ok \in BOOLEAN :
         LET exc == Rigol_set_offset_guard(channel, offset_voltage)
             args == <<channel, offset_voltage>>
         IN  IF exc # NoError THEN Raise("set_offset", args, exc)
             ELSE TryWrite("set_offset", args,
                           Rigol_set_offset_command(channel, offset_voltage), ok, TRUE)

Rigol_set_output_guard(channel, state) ==
    IF InvalidChannel(channel) THEN "InvalidChannelNumber"
    ELSE IF state.t # "bool" THEN "TypeError"
    ELSE NoError

Rigol_set_output_command(channel, state) ==
    "OUTP" \o Format(channel) \o " " \o (IF state.n = 1 THEN "ON" ELSE "OFF")

Rigol_set_output(D) ==
    /\ vendor = "Rigol" /\ ncalls < D.calls
    /\ \E channel \in D.channel, state \in D.state, ok \in BOOLEAN :
         LET exc == Rigol_set_output_guard(channel, state)
             args == <<channel, state>>
         IN  IF exc # NoError THEN Raise("set_output", args, exc)
             ELSE TryWrite("set_output", args,
                           Rigol_set_output_command(channel, state), ok, FALSE)

Rigol_set_output_load_guard(channel, load) ==
    IF InvalidChannel(channel) THEN "InvalidChannelNumber"
    ELSE IF load.t # "float" /\ load.t # "int" /\ load.t # "OutputLoad" THEN "TypeError"
    ELSE NoError

\* set_output_load sending the other dialect's sentinel token.
Rigol_set_output_load_command_shared(channel, load) ==
    "OUTP" \o Format(channel) \o ":LOAD "
        \o (IF load = Member("OutputLoad", "HZ") \/ load = Member("OutputLoad", "INF")
            THEN "HZ" ELSE Format(load))

\* if load == OutputLoad.HZ or load == OutputLoad.INF: load = 'INF'
Rigol_set_output_load_command(channel, load) ==
    "OUTP" \o Format(channel) \o ":LOAD "
        \o (IF load = Member("OutputLoad", "HZ") \/ load = Member("OutputLoad", "INF")
            THEN "INF" ELSE Format(load))

Rigol_set_output_load(D) ==
    /\ vendor = "Rigol" /\ ncalls < D.calls
    /\ \E channel \in D.channel, load \in D.load, ok \in BOOLEAN :
         LET exc == Rigol_set_output_load_guard(channel, load)
             args == <<channel, load>>
         IN  IF exc # NoError THEN Raise("set_output_load", args, exc)
             ELSE TryWrite("set_output_load", args,
                           Rigol_set_output_load_command(channel, load), ok, FALSE)

Rigol_set_phase_guard(channel, phase) ==
    IF InvalidChannel(channel) THEN "InvalidChannelNumber"
    ELSE IF NotNumber(phase) THEN "TypeError"
    ELSE IF ~(Le(PInt(0), Abs(phase)) /\ Le(Abs(phase), PInt(360))) THEN "ValueError"
    ELSE NoError

Rigol_set_phase_command(channel, phase) ==
    "SOUR" \o Format(channel) \o ":PHAS " \o Format(phase)

Rigol_set_phase(D) ==
    /\ vendor = "Rigol" /\ ncalls < D.calls
    /\ \E channel \in D.channel, phase \in D.phase, ok \in BOOLEAN :
         LET exc == Rigol_set_phase_guard(channel, phase)
             args == <<channel, phase>>
         IN  IF exc # NoError THEN Raise("set_phase", args, exc)
             ELSE TryWrite("set_phase", args,
                           Rigol_set_phase_command(channel, phase), ok, TRUE)

Rigol_set_waveform_guard(channel, waveform_type) ==
    IF InvalidChannel(channel) THEN "InvalidChannelNumber"
    ELSE IF waveform_type.t # "WaveformType" THEN "TypeError"
    ELSE NoError

\* set_waveform leaving the channel prefix out once a command has gone out.
Rigol_set_waveform_command_cached(channel, waveform_type) ==
    (IF sent = <<>> THEN "SOUR" \o Format(channel) ELSE "") \o ":FUNC " \o waveform_type.s

Rigol_set_waveform_command(channel, waveform_type) ==
    "SOUR" \o Format(channel) \o ":FUNC " \o waveform_type.s

Rigol_set_waveform(D) ==
    /\ vendor = "Rigol" /\ ncalls < D.calls
    /\ \E channel \in D.channel, waveform_type \in D.waveform_type, ok \in BOOLEAN :
         LET exc == Rigol_set_waveform_guard(channel, waveform_type)
             args == <<channel, waveform_type>>
         IN  IF exc # NoError THEN Raise("set_waveform", args, exc)
             ELSE TryWrite("set_waveform", args,
                           Rigol_set_waveform_command(channel, waveform_type), ok, TRUE)

Rigol_sync_phase_guard(channel) ==
    IF InvalidChannel(channel) THEN "InvalidChannelNumber" ELSE NoError

Rigol_sync_phase_command(channel) == "SOUR" \o Format(channel) \o ":PHAS:SYNC"

Rigol_sync_phase(D) ==
    /\ vendor = "Rigol" /\ ncalls < D.calls
    /\ \E channel \in D.channel, ok \in BOOLEAN :
         LET exc == Rigol_sync_phase_guard(channel)
             args == <<channel>>
         IN  IF exc # NoError THEN Raise("sync_phase", args, exc)
             ELSE TryWrite("sync_phase", args, Rigol_sync_phase_command(channel), ok, TRUE)

Rigol_trigger_burst_guard(channel) ==
    IF InvalidChannel(channel) THEN "InvalidChannelNumber" ELSE NoError

Rigol_trigger_burst_command(channel) == "SOUR" \o Format(channel) \o ":BURS:TRIG"

\* The except block of trigger_burst logs the error and has no raise.
Rigol_trigger_burst(D) ==
    /\ vendor = "Rigol" /\ ncalls < D.calls
    /\ \E channel \in D.channel, ok \in BOOLEAN :
         LET exc == Rigol_trigger_burst_guard(channel)
             args == <<channel>>
         IN  IF exc # NoError THEN Raise("trigger_burst", args, exc)
             ELSE TryWrite("trigger_burst", args, Rigol_trigger_burst_command(channel),
                           ok, FALSE)

(***************************************************************************)
(* SiglentSDG1000X (siglent.py), method by method as above.                *)
(***************************************************************************)
Siglent_set_amplitude_guard(channel, amplitude, unit) ==
    IF InvalidChannel(channel) THEN "InvalidChannelNumber"
    ELSE IF NotNumber(amplitude) THEN "TypeError"
    ELSE IF ~(Le(PInt(-10), amplitude) /\ Le(amplitude, PInt(10))) THEN "ValueError"
    ELSE IF unit.t # "AmplitudeUnit" THEN "TypeError"
    ELSE NoError

\* set_amplitude writing the unit after the amplitude, as the Rigol class does.
Siglent_set_amplitude_command_with_unit(channel, amplitude, unit) ==
    "C" \o Format(channel) \o ":BSWV AMP," \o Format(amplitude) \o unit.s

\* The unit is checked and not written.
Siglent_set_amplitude_command(channel, amplitude, unit) ==
    "C" \o Format(channel) \o ":BSWV AMP," \o Format(amplitude)

Siglent_set_amplitude(D) ==
    /\ vendor = "Siglent" /\ ncalls < D.calls
    /\ \E channel \in D.channel, amplitude \in D.amplitude, unit \in D.amplitude_unit, ok \in BOOLEAN :
         LET exc == Siglent_set_amplitude_guard(channel, amplitude, unit)
             args == <<channel, amplitude, unit>>
         IN  IF exc # NoError THEN Raise("set_amplitude", args, exc)
             ELSE TryWrite("set_amplitude", args,
                           Siglent_set_amplitude_command(channel, amplitude, unit), ok, TRUE)

Siglent_set_burst_delay_guard(channel, delay) ==
    IF InvalidChannel(channel) THEN "InvalidChannelNumber"
    ELSE IF NotNumber(delay) THEN "TypeError"
    ELSE IF Lt(delay, PInt(0)) THEN "ValueError"
    ELSE NoError

Siglent_set_burst_delay_command(channel, delay) ==
    "C" \o Format(channel) \o ":BTWV DEL," \o Format(delay)

Siglent_set_burst_delay(D) ==
    /\ vendor = "Siglent" /\ ncalls < D.calls
    /\ \E channel \in D.channel, delay \in D.delay, ok \in BOOLEAN :
         LET exc == Siglent_set_burst_delay_guard(channel, delay)
             args == <<channel, delay>>
         IN  IF exc # NoError THEN Raise("set_burst_delay", args, exc)
             ELSE TryWrite("set_burst_delay", args,
                           Siglent_set_burst_delay_command(channel, delay), ok, FALSE)

\* The guard of set_burst_mode taking the other vendor's burst modes as well.
Siglent_set_burst_mode_guard_either(channel, burst_mode) ==
    IF InvalidChannel(channel) THEN "InvalidChannelNumber"
    ELSE IF burst_mode.t # "BurstModeSiglent" /\ burst_mode.t # "BurstModeRigol" THEN "TypeError"
    ELSE NoError

Siglent_set_burst_mode_guard(channel, burst_mode) ==
    IF InvalidChannel(channel) THEN "InvalidChannelNumber"
    ELSE IF burst_mode.t # "BurstModeSiglent" THEN "TypeError"
    ELSE NoError

Siglent_set_burst_mode_command(channel, burst_mode) ==
    "C" \o Format(channel) \o ":BTWV GATE_NCYC," \o burst_mode.s

Siglent_set_burst_mode(D) ==
    /\ vendor = "Siglent" /\ ncalls < D.calls
    /\ \E channel \in D.channel, burst_mode \in D.burst_mode, ok \in BOOLEAN :
         LET exc == Siglent_set_burst_mode_guard(channel, burst_mode)
             args == <<channel, burst_mode>>
         IN  IF exc # NoError THEN Raise("set_burst_mode", args, exc)
             ELSE TryWrite("set_burst_mode", args,
                           Siglent_set_burst_mode_command(channel, burst_mode), ok, FALSE)

Siglent_set_burst_period_guard(channel, period) ==
    IF InvalidChannel(channel) THEN "InvalidChannelNumber"
    ELSE IF NotNumber(period) THEN "TypeError"
    ELSE IF Lt(period, PInt(0)) THEN "ValueError"
    ELSE NoError

Siglent_set_burst_period_command(channel, period) ==
    "C" \o Format(channel) \o ":BTWV PRD," \o Format(period)

Siglent_set_burst_period(D) ==
    /\ vendor = "Siglent" /\ ncalls < D.calls
    /\ \E channel \in D.channel, period \in D.period, ok \in BOOLEAN :
         LET exc == Siglent_set_burst_period_guard(channel, period)
             args == <<channel, period>>
         IN  IF exc # NoError THEN Raise("set_burst_period", args, exc)
             ELSE TryWrite("set_burst_period", args,
                           Siglent_set_burst_period_command(channel, period), ok, FALSE)

\* The guard of set_burst_state taking integers as states as well.
Siglent_set_burst_state_guard_int(channel, state) ==
    IF InvalidChannel(channel) THEN "InvalidChannelNumber"
    ELSE IF state.t # "bool" /\ state.t # "int" THEN "TypeError"
    ELSE NoError

Siglent_set_burst_state_guard(channel, state) ==
    IF InvalidChannel(channel) THEN "InvalidChannelNumber"
    ELSE IF state.t # "bool" THEN "TypeError"
    ELSE NoError

Siglent_set_burst_state_command(channel, state) ==
    "C" \o Format(channel) \o ":BTWV STATE," \o (IF state.n = 1 THEN "ON" ELSE "OFF")

Siglent_set_burst_state(D) ==
    /\ vendor = "Siglent" /\ ncalls < D.calls
    /\ \E channel \in D.channel, state \in D.state, ok \in BOOLEAN :
         LET exc == Siglent_set_burst_state_guard(channel, state)
             args == <<channel, state>>
         IN  IF exc # NoError THEN Raise("set_burst_state", args, exc)
             ELSE TryWrite("set_burst_state", args,
                           Siglent_set_burst_state_command(channel, state), ok, FALSE)

Siglent_set_burst_trigger_source_guard(channel, trigger_source) ==
    IF InvalidChannel(channel) THEN "InvalidChannelNumber"
    ELSE IF trigger_source.t # "BurstTriggerSource" THEN "TypeError"
    ELSE NoError

Siglent_set_burst_trigger_source_command(channel, trigger_source) ==
    "C" \o Format(channel) \o ":BTWV TRSR," \o trigger_source.s

Siglent_set_burst_trigger_source(D) ==
    /\ vendor = "Siglent" /\ ncalls < D.calls
    /\ \E channel \in D.channel, trigger_source \in D.trigger_source, ok \in BOOLEAN :
         LET exc == Siglent_set_burst_trigger_source_guard(channel, trigger_source)
             args == <<channel, trigger_source>>
         IN  IF exc # NoError THEN Raise("set_burst_trigger_source", args, exc)
             ELSE TryWrite("set_burst_trigger_source", args,
                           Siglent_set_burst_trigger_source_command(channel, trigger_source), ok, FALSE)

Siglent_set_frequency_guard(channel, frequency, unit) ==
    IF InvalidChannel(channel) THEN "InvalidChannelNumber"
    ELSE IF NotNumber(frequency) THEN "TypeError"
    ELSE IF Lt(frequency, PInt(0)) THEN "ValueError"
    ELSE IF unit.t # "FrequencyUnit" THEN "TypeError"
    ELSE NoError

\* The conversion of set_frequency with the factors of KHZ and MHZ exchanged.
Siglent_set_frequency_command_swapped(channel, frequency, unit) ==
    LET converted_frequency ==
            IF unit = Member("FrequencyUnit", "KHZ") THEN Times(frequency, 1000000)
            ELSE IF unit = Member("FrequencyUnit", "MHZ") THEN Times(frequency, 1000)
            ELSE frequency
    IN  "C" \o Format(channel) \o ":BSWV FRQ," \o Format(converted_frequency)

Siglent_set_frequency_command(channel, frequency, unit) ==
    LET converted_frequency ==
            IF unit = Member("FrequencyUnit", "KHZ") THEN Times(frequency, 1000)
            ELSE IF unit = Member("FrequencyUnit", "MHZ") THEN Times(frequency, 1000000)
            ELSE frequency
    IN  "C" \o Format(channel) \o ":BSWV FRQ," \o Format(converted_frequency)

\* set_frequency with the write moved in front of the argument guard.
Siglent_set_frequency_write_first(D) ==
    /\ vendor = "Siglent" /\ ncalls < D.calls
    /\ \E channel \in D.channel, frequency \in D.frequency, unit \in D.frequency_unit,
          ok \in BOOLEAN :
         LET exc == Siglent_set_frequency_guard(channel, frequency, unit)
             args == <<channel, frequency, unit>>
         IN  IF exc # NoError
             THEN /\ sent' = write(sent, "C" \o Format(channel) \o ":BSWV FRQ,"
                                             \o Format(frequency))
                  /\ last' = [op |-> "set_frequency", args |-> args,
                              transport |-> IF ok THEN "ok" ELSE "failed",
                              outcome |-> exc, ret |-> PNone, logrec |-> <<>>,
                              response |-> <<>>]
                  /\ ncalls' = ncalls + 1
                  /\ UNCHANGED vendor
             ELSE TryWrite("set_frequency", args,
                           Siglent_set_frequency_command(channel, frequency, unit), ok, TRUE)

Siglent_set_frequency(D) ==
    /\ vendor = "Siglent" /\ ncalls < D.calls
    /\ \E channel \in D.channel, frequency \in D.frequency, unit \in D.frequency_unit, ok \in BOOLEAN :
         LET exc == Siglent_set_frequency_guard(channel, frequency, unit)
             args == <<channel, frequency, unit>>
         IN  IF exc # NoError THEN Raise("set_frequency", args, exc)
             ELSE TryWrite("set_frequency", args,
                           Siglent_set_frequency_command(channel, frequency, unit), ok, TRUE)

Siglent_set_offset_guard(channel, offset_voltage) ==
    IF InvalidChannel(channel) THEN "InvalidChannelNumber"
    ELSE IF NotNumber(offset_voltage) THEN "TypeError"
    ELSE NoError

Siglent_set_offset_command(channel, offset_voltage) ==
    "C" \o Format(channel) \o ":BSWV OFST," \o Format(offset_voltage)

Siglent_set_offset(D) ==
    /\ vendor = "Siglent" /\ ncalls < D.calls
    /\ \E channel \in D.channel, offset_voltage \in D.offset_voltage, ok \in BOOLEAN :
         LET exc == Siglent_set_offset_guard(channel, offset_voltage)
             args == <<channel, offset_voltage>>
         IN  IF exc # NoError THEN Raise("set_offset", args, exc)
             ELSE TryWrite("set_offset", args,
                           Siglent_set_offset_command(channel, offset_voltage), ok, TRUE)

Siglent_set_output_guard(channel, state) ==
    IF InvalidChannel(channel) THEN "InvalidChannelNumber"
    ELSE IF state.t # "bool" THEN "TypeError"
    ELSE NoError

Siglent_set_output_command(channel, state) ==
    "C" \o Format(channel) \o ":OUTP " \o (IF state.n = 1 THEN "ON" ELSE "OFF")

Siglent_set_output(D) ==
    /\ vendor = "Siglent" /\ ncalls < D.calls
    /\ \E channel \in D.channel, state \in D.state, ok \in BOOLEAN :
         LET exc == Siglent_set_output_guard(channel, state)
             args == <<channel, state>>
         IN  IF exc # NoError THEN Raise("set_output", args, exc)
             ELSE TryWrite("set_output", args,
                           Siglent_set_output_command(channel, state), ok, FALSE)

Siglent_set_output_load_guard(channel, load) ==
    IF InvalidChannel(channel) THEN "InvalidChannelNumber"
    ELSE IF load.t # "float" /\ load.t # "int" /\ load.t # "OutputLoad" THEN "TypeError"
    ELSE NoError

\* if load == OutputLoad.HZ or load == OutputLoad.INF: load = 'HZ'
Siglent_set_output_load_command(channel, load) ==
    "C" \o Format(channel) \o ":OUTP LOAD,"
        \o (IF load = Member("OutputLoad", "HZ") \/ load = Member("OutputLoad", "INF")
            THEN "HZ" ELSE Format(load))

Siglent_set_output_load(D) ==
    /\ vendor = "Siglent" /\ ncalls < D.calls
    /\ \E channel \in D.channel, load \in D.load, ok \in BOOLEAN :
         LET exc == Siglent_set_output_load_guard(channel, load)
             args == <<channel, load>>
         IN  IF exc # NoError THEN Raise("set_output_load", args, exc)
             ELSE TryWrite("set_output_load", args,
                           Siglent_set_output_load_command(channel, load), ok, FALSE)

\* The range check of set_phase without abs(): 0 <= phase <= 360.
Siglent_set_phase_guard_no_abs(channel, phase) ==
    IF InvalidChannel(channel) THEN "InvalidChannelNumber"
    ELSE IF NotNumber(phase) THEN "TypeError"
    ELSE IF ~(Le(PInt(0), phase) /\ Le(phase, PInt(360))) THEN "ValueError"
    ELSE NoError

Siglent_set_phase_guard(channel, phase) ==
    IF InvalidChannel(channel) THEN "InvalidChannelNumber"
    ELSE IF NotNumber(phase) THEN "TypeError"
    ELSE IF ~(Le(PInt(0), Abs(phase)) /\ Le(Abs(phase), PInt(360))) THEN "ValueError"
    ELSE NoError

Siglent_set_phase_command(channel, phase) ==
    "C" \o Format(channel) \o ":BSWV PHSE," \o Format(phase)

Siglent_set_phase(D) ==
    /\ vendor = "Siglent" /\ ncalls < D.calls
    /\ \E channel \in D.channel, phase \in D.phase, ok \in BOOLEAN :
         LET exc == Siglent_set_phase_guard(channel, phase)
             args == <<channel, phase>>
         IN  IF exc # NoError THEN Raise("set_phase", args, exc)
             ELSE TryWrite("set_phase", args,
                           Siglent_set_phase_command(channel, phase), ok, TRUE)

Siglent_set_waveform_guard(channel, waveform_type) ==
    IF InvalidChannel(channel) THEN "InvalidChannelNumber"
    ELSE IF waveform_type.t # "WaveformType" THEN "TypeError"
    ELSE NoError

Siglent_set_waveform_command(channel, waveform_type) ==
    "C" \o Format(channel) \o ":BSWV WVTP," \o waveform_type.s

Siglent_set_waveform(D) ==
    /\ vendor = "Siglent" /\ ncalls < D.calls
    /\ \E channel \in D.channel, waveform_type \in D.waveform_type, ok \in BOOLEAN :
         LET exc == Siglent_set_waveform_guard(channel, waveform_type)
             args == <<channel, waveform_type>>
         IN  IF exc # NoError THEN Raise("set_waveform", args, exc)
             ELSE TryWrite("set_waveform", args,
                           Siglent_set_waveform_command(channel, waveform_type), ok, TRUE)

Siglent_trigger_burst_guard(channel) ==
    IF InvalidChannel(channel) THEN "InvalidChannelNumber"
    ELSE NoError

Siglent_trigger_burst_command(channel) ==
    "C" \o Format(channel) \o ":BTWV MTRIG"

Siglent_trigger_burst(D) ==
    /\ vendor = "Siglent" /\ ncalls < D.calls
    /\ \E channel \in D.channel, ok \in BOOLEAN :
         LET exc == Siglent_trigger_burst_guard(channel)
             args == <<channel>>
         IN  IF exc # NoError THEN Raise("trigger_burst", args, exc)
             ELSE TryWrite("trigger_burst", args,
                           Siglent_trigger_burst_command(channel), ok, FALSE)

\* sync_phase addressing the channel it was given.
Siglent_sync_phase_command_per_channel(_channel) == "C" \o Format(_channel) \o ":EQPHASE"

\* sync_phase has no argument guard: its body is the try block alone, and the
\* command does not mention _channel.
Siglent_sync_phase_command(_channel) == "EQPHASE"

Siglent_sync_phase(D) ==
    /\ vendor = "Siglent" /\ ncalls < D.calls
    /\ \E _channel \in D.channel, ok \in BOOLEAN :
         TryWrite("sync_phase", <<_channel>>, Siglent_sync_phase_command(_channel), ok, TRUE)

(***************************************************************************)
(* get_channel_wave_parameter.  A response is a sequence of atoms: the     *)
(* characters " ", "," and "'" stand for themselves and every other atom   *)
(* is a run of characters holding none of the three.                       *)
(***************************************************************************)
\* str.split(sep): the pieces between the separators, [''] for the empty string.
RECURSIVE Split(_, _)
Split(str, sep) ==
    IF \E i \in 1..Len(str) : str[i] = sep
    THEN LET i == CHOOSE k \in 1..Len(str) :
                      str[k] = sep /\ \A j \in 1..(k - 1) : str[j] # sep
         IN  <<SubSeq(str, 1, i - 1)>> \o Split(SubSeq(str, i + 1, Len(str)), sep)
    ELSE <<str>>

\* str.strip(ch): leading and trailing ch removed.
Strip(str, ch) ==
    LET keep == {i \in 1..Len(str) : str[i] # ch}
    IN  IF keep = {} THEN <<>>
        ELSE SubSeq(str, CHOOSE i \in keep : \A j \in keep : i <= j,
                         CHOOSE i \in keep : \A j \in keep : j <= i)

\* The text of a sequence of atoms.
RECURSIVE Join(_)
Join(str) == IF str = <<>> THEN "" ELSE Head(str) \o Join(Tail(str))

\* The keys of result_dict and the wire key each one reads with params.get.
result_dict_keys ==
    [waveform_type |-> "WVTP", frequency |-> "FRQ", period |-> "PERI",
     amplitude |-> "AMP", offset |-> "OFST", high_level |-> "HLEV",
     low_level |-> "LLEV", phase |-> "PHSE"]

\* The body of the try block after the query returned reply: the outcome and
\* the value returned.
Siglent_get_channel_wave_parameter_parse(reply, parameter) ==
    LET pieces == Split(reply, " ")
    IN  IF Len(pieces) < 2 THEN [outcome |-> "IndexError", ret |-> PNone]
        ELSE
          LET response == pieces[2]
              tokens == Split(Strip(response, "'"), ",")
              \* zip(tokens[::2], tokens[1::2]) ends with the shorter slice
              npairs == Len(tokens) \div 2
              \* dict(...): of two pairs with one key the later one stays
              get(key) ==
                  LET at == {i \in 1..npairs : Join(tokens[2 * i - 1]) = key}
                  IN  IF at = {} THEN PNone
                      ELSE PString(Join(tokens[2 * (CHOOSE i \in at : \A j \in at : j <= i)]))
          IN  IF parameter.t = "str" /\ parameter.s \in DOMAIN result_dict_keys
              THEN [outcome |-> "return", ret |-> get(result_dict_keys[parameter.s])]
              ELSE [outcome |-> "KeyError", ret |-> PNone]

Siglent_get_channel_wave_parameter_command(channel) ==
    "C" \o Format(channel) \o "BSWV?"

\* No argument guard; every exception of the try block is logged and raised again.
Siglent_get_channel_wave_parameter(D) ==
    /\ vendor = "Siglent" /\ ncalls < D.calls
    /\ \E channel \in D.channel, parameter \in D.parameter, ok \in BOOLEAN,
          reply \in D.response :
         LET result == IF ok THEN Siglent_get_channel_wave_parameter_parse(reply, parameter)
                       ELSE [outcome |-> "TransportFailure", ret |-> PNone]
         IN  /\ sent' = query(sent, Siglent_get_channel_wave_parameter_command(channel))
             /\ last' = [op |-> "get_channel_wave_parameter",
                         args |-> <<channel, parameter>>,
                         transport |-> IF ok THEN "ok" ELSE "failed",
                         outcome |-> result.outcome,
                         ret |-> result.ret,
                         logrec |-> IF result.outcome = "return" THEN <<>> ELSE <<"error">>,
                         response |-> IF ok THEN reply ELSE <<>>]
             /\ ncalls' = ncalls + 1
             /\ UNCHANGED vendor

(***************************************************************************)
(* The arguments the calls are drawn from.  SessionArgs: a few per         *)
(* parameter, one accepted and one rejected, for sessions of several       *)
(* calls.  CallArgs: every type and both sides of every boundary, for the  *)
(* first call on a new device object.                                      *)
(***************************************************************************)
Responses ==
    { <<"C1:BSWV", " ", "WVTP", ",", "SINE", ",", "FRQ", ",", "1000HZ", ",",
        "PERI", ",", "0.001S", ",", "AMP", ",", "4V", ",", "OFST", ",", "0V", ",",
        "HLEV", ",", "2V", ",", "LLEV", ",", "-2V", ",", "PHSE", ",", "0">>,
      <<"C1:BSWV", " ", "'", "WVTP", ",", "SQUARE", ",", "FRQ", ",", "50HZ", "'">>,
      <<"C1:BSWV", " ", "FRQ", ",", "1HZ", ",", "FRQ", ",", "2HZ", ",", "AMP">>,
      <<"C1:BSWV">>,
      <<"C1:BSWV", " ">> }

SessionArgs ==
    [calls |-> MaxCalls,
     channel |-> {PInt(1), PInt(2), PInt(3)},
     amplitude |-> {PInt(5), PInt(11)},
     amplitude_unit |-> {Member("AmplitudeUnit", "VPP")},
     delay |-> {PInt(0), PInt(-1)},
     burst_mode |-> {Member("BurstModeRigol", "TRIG"), Member("BurstModeSiglent", "NCYC")},
     period |-> {PFloat(1), PString("1")},
     state |-> {PBool(TRUE), PInt(1)},
     trigger_source |-> {Member("BurstTriggerSource", "EXT"), PString("EXT")},
     frequency |-> {PInt(2), PInt(-2)},
     frequency_unit |-> {Member("FrequencyUnit", "KHZ")},
     offset_voltage |-> {PInt(-1), PNone},
     load |-> {PInt(50), PString("INF")},
     phase |-> {PInt(-90), PInt(361)},
     waveform_type |-> {Member("WaveformType", "SQU"), PString("SQU")},
     parameter |-> {PString("frequency"), PString("unit")},
     response |-> {<<"C1:BSWV", " ", "FRQ", ",", "1000HZ">>, <<"C1:BSWV">>}]

Channels ==
    {PInt(0), PInt(1), PInt(2), PInt(3), PBool(TRUE), PFloat(2), PFloat(4),
     PString("1"), PNone}

CallArgs ==
    [calls |-> 1,
     channel |-> Channels,
     amplitude |-> {PInt(-11), PInt(-10), PInt(0), PInt(10), PInt(11),
                    PFloat(-21), PFloat(-20), PFloat(5), PFloat(20), PFloat(21),
                    PNaN, PBool(TRUE), PString("5"), PNone},
     amplitude_unit |-> AmplitudeUnit \cup {Member("FrequencyUnit", "HZ"), PString("VPP")},
     delay |-> {PInt(-1), PInt(0), PInt(3), PFloat(-1), PFloat(0), PFloat(1),
                PNaN, PBool(FALSE), PString("0")},
     burst_mode |-> BurstModeRigol \cup BurstModeSiglent
                       \cup {Member("WaveformType", "SIN"), PString("TRIG")},
     period |-> {PInt(-1), PInt(0), PInt(3), PFloat(-1), PFloat(0), PFloat(1),
                 PNaN, PBool(FALSE), PString("0")},
     state |-> {PBool(TRUE), PBool(FALSE), PInt(0), PInt(1), PString("ON"), PNone},
     trigger_source |-> BurstTriggerSource
                           \cup {Member("WaveformType", "SIN"), PString("INT")},
     frequency |-> {PInt(-1), PInt(0), PInt(2), PFloat(-1), PFloat(0), PFloat(5),
                    PNaN, PBool(TRUE), PString("2")},
     frequency_unit |-> FrequencyUnit \cup {Member("AmplitudeUnit", "VPP"), PString("KHZ")},
     offset_voltage |-> {PInt(-100), PInt(0), PInt(5), PFloat(-5), PNaN,
                         PBool(TRUE), PString("0"), PNone},
     load |-> OutputLoad \cup {PInt(-50), PInt(0), PInt(50), PFloat(101), PNaN,
                               PBool(TRUE), PString("HZ"), PNone},
     phase |-> {PInt(-361), PInt(-360), PInt(-90), PInt(0), PInt(90), PInt(360),
                PInt(361), PFloat(-721), PFloat(-720), PFloat(-1), PFloat(1),
                PFloat(720), PFloat(721), PNaN, PBool(TRUE), PString("90")},
     waveform_type |-> WaveformType
                          \cup {Member("BurstTriggerSource", "INT"), PString("SIN")},
     parameter |-> {PString(p) : p \in DOMAIN result_dict_keys} \cup {PString("unit")},
     response |-> Responses]

\* One call of one public method of the device's class.
Call(D) ==
    \/ Rigol_set_amplitude(D)
    \/ Rigol_set_burst_delay(D)
    \/ Rigol_set_burst_mode(D)
    \/ Rigol_set_burst_period(D)
    \/ Rigol_set_burst_state(D)
    \/ Rigol_set_burst_trigger_source(D)
    \/ Rigol_set_frequency(D)
    \/ Rigol_set_offset(D)
    \/ Rigol_set_output(D)
    \/ Rigol_set_output_load(D)
    \/ Rigol_set_phase(D)
    \/ Rigol_set_waveform(D)
    \/ Rigol_sync_phase(D)
    \/ Rigol_trigger_burst(D)
    \/ Siglent_get_channel_wave_parameter(D)
    \/ Siglent_set_amplitude(D)
    \/ Siglent_set_burst_delay(D)
    \/ Siglent_set_burst_mode(D)
    \/ Siglent_set_burst_period(D)
    \/ Siglent_set_burst_state(D)
    \/ Siglent_set_burst_trigger_source(D)
    \/ Siglent_set_frequency(D)
    \/ Siglent_set_offset(D)
    \/ Siglent_set_output(D)
    \/ Siglent_set_output_load(D)
    \/ Siglent_set_phase(D)
    \/ Siglent_set_waveform(D)
    \/ Siglent_sync_phase(D)
    \/ Siglent_trigger_burst(D)

\* Sessions of up to MaxCalls calls on one device object.
Next == Call(SessionArgs)

Spec == Init /\ [][Next]_vars

\* The first call on a new device object, over every kind of argument.
NextArgs == Call(CallArgs)

SpecArgs == Init /\ [][NextArgs]_vars

(***************************************************************************)
(* Properties.                                                             *)
(***************************************************************************)
\* The exceptions the argument guards raise.
ValidationErrors == {"InvalidChannelNumber", "TypeError", "ValueError"}

\* The channel argument of the last call is the integer 1 or 2.
ChannelOneOrTwo == last.args[1] \in {PInt(1), PInt(2)}

\* The value of the channel argument of the last call is neither 1 nor 2.
ChannelNotOneOrTwo ==
    LET c == last.args[1]
    IN  ~(c.t \in {"int", "float", "bool"} /\ c.s # "nan" /\ Halves(c) \in {2, 4})

\* The second argument of the last call is an int or a float other than NaN.
NumberGiven == last.args[2].t \in {"int", "float"} /\ last.args[2].s # "nan"

\* The result of a call that passed its guard: a normal return when the
\* transport took the command, the transport's exception otherwise.
Dispatched ==
    /\ Len(sent) = 1
    /\ last.outcome = IF last.transport = "ok" THEN "return" ELSE "TransportFailure"

\* C1: every operation called with a channel value outside {1, 2} fails with
\* InvalidChannelNumber and hands no command to the transport.
C1_InvalidChannelFails ==
    (last.op # "" /\ ChannelNotOneOrTwo)
        => (last.outcome = "InvalidChannelNumber" /\ sent = <<>>)

\* C2: a call that ends in a validation error leaves the transport's log of
\* commands as it was.
C2_ValidationErrorSendsNothing ==
    [][last'.outcome \in ValidationErrors => sent' = sent]_vars

C2_Witness == last.outcome \in ValidationErrors /\ ncalls = 2 /\ Len(sent) = 1

\* C3: a transport failure in set_amplitude, set_frequency, set_offset,
\* set_phase, set_waveform or sync_phase reaches the caller as an exception.
ReraisingOps ==
    {"set_amplitude", "set_frequency", "set_offset", "set_phase", "set_waveform",
     "sync_phase"}

C3_FailurePropagates ==
    (last.op \in ReraisingOps /\ last.transport = "failed")
        => last.outcome = "TransportFailure"

C3_Witness ==
    /\ last.op = "set_amplitude" /\ vendor = "Rigol"
    /\ last.transport = "failed" /\ last.outcome = "TransportFailure"

\* C4: a transport failure in trigger_burst with a valid channel reaches the
\* caller as an exception.
C4_TriggerBurstFailurePropagates ==
    (last.op = "trigger_burst" /\ last.transport = "failed")
        => last.outcome = "TransportFailure"

\* C5: a transport failure in set_burst_delay, set_burst_mode, set_burst_period,
\* set_burst_state, set_burst_trigger_source, set_output or set_output_load is
\* logged and the call returns None with no exception, as a successful call does.
LoggedOnlyOps ==
    {"set_burst_delay", "set_burst_mode", "set_burst_period", "set_burst_state",
     "set_burst_trigger_source", "set_output", "set_output_load"}

C5_FailureOnlyLogged ==
    (last.op \in LoggedOnlyOps /\ last.transport # "none")
        => /\ last.outcome = "return"
           /\ last.ret = PNone
           /\ last.logrec = IF last.transport = "failed" THEN <<"error">> ELSE <<"debug">>

C5_Witness ==
    /\ last.op = "set_burst_delay" /\ vendor = "Rigol"
    /\ last.transport = "failed" /\ last.outcome = "return"

\* C6: a call that passes validation hands exactly one command to the transport,
\* a query for get_channel_wave_parameter and a write otherwise, also when the
\* transport fails.
C6_ExactlyOneCommand ==
    [][last'.outcome \notin ValidationErrors
          => /\ Len(sent') = Len(sent) + 1
             /\ SubSeq(sent', 1, Len(sent)) = sent
             /\ sent'[Len(sent')].kind =
                  IF last'.op = "get_channel_wave_parameter" THEN "query" ELSE "write"]_vars

C6_Witness ==
    /\ last.transport = "failed" /\ last.outcome = "return"
    /\ ncalls = 2 /\ Len(sent) = 2

\* C7: with a valid channel and a numeric amplitude, set_amplitude fails with
\* ValueError and sends nothing when the amplitude is below -10 or above 10, and
\* with an AmplitudeUnit it sends its command for every amplitude from -10 to 10,
\* both included.
C7_AmplitudeRange ==
    (last.op = "set_amplitude" /\ ChannelOneOrTwo /\ NumberGiven)
        => LET h == Halves(last.args[2])
           IN  /\ (h < -20 \/ h > 20) => (last.outcome = "ValueError" /\ sent = <<>>)
               /\ (-20 <= h /\ h <= 20 /\ last.args[3] \in AmplitudeUnit) => Dispatched

C7_Witness ==
    /\ last.op = "set_amplitude" /\ last.args[2] = PInt(-10)
    /\ last.outcome = "return" /\ Len(sent) = 1

C9_NegativePhaseRejected ==
    (last.op = "set_phase" /\ ChannelOneOrTwo /\ NumberGiven /\ Halves(last.args[2]) < 0)
        => (last.outcome = "ValueError" /\ sent = <<>>)

\* C10: for a valid channel, a frequency f >= 0 and a unit u, Siglent set_frequency
\* writes 'C{ch}:BSWV FRQ,{v}' with v = f, f*1000, f*1000000 for HZ, KHZ, MHZ and
\* no unit, and Rigol set_frequency writes 'SOUR{ch}:FREQ {f}{u}'.
C10_FrequencyCommand ==
    (/\ last.op = "set_frequency" /\ ChannelOneOrTwo /\ NumberGiven
     /\ Halves(last.args[2]) >= 0 /\ last.args[3] \in FrequencyUnit)
        => LET ch == last.args[1]
               f == last.args[2]
               u == last.args[3]
               factor == CASE u.s = "HZ" -> 1 [] u.s = "KHZ" -> 1000 [] u.s = "MHZ" -> 1000000
               v == [f EXCEPT !.n = f.n * factor]
           IN  /\ Len(sent) = 1 /\ sent[1].kind = "write"
               /\ vendor = "Siglent" =>
                    /\ sent[1].cmd = "C" \o ToString(ch.n) \o ":BSWV FRQ," \o Format(v)
                    /\ (ch = PInt(1) /\ f = PInt(2) /\ u.s = "KHZ")
                          => sent[1].cmd = "C1:BSWV FRQ,2000"
                    /\ (ch = PInt(2) /\ f = PFloat(5) /\ u.s = "MHZ")
                          => sent[1].cmd = "C2:BSWV FRQ,2500000.0"
                    /\ (ch = PInt(2) /\ f = PInt(2) /\ u.s = "HZ")
                          => sent[1].cmd = "C2:BSWV FRQ,2"
               /\ vendor = "Rigol" =>
                    /\ sent[1].cmd = "SOUR" \o ToString(ch.n) \o ":FREQ " \o Format(f) \o u.s
                    /\ (ch = PInt(1) /\ f = PInt(2) /\ u.s = "KHZ")
                          => sent[1].cmd = "SOUR1:FREQ 2KHZ"
                    /\ (ch = PInt(2) /\ f = PFloat(5) /\ u.s = "MHZ")
                          => sent[1].cmd = "SOUR2:FREQ 2.5MHZ"

C10_Witness ==
    /\ vendor = "Siglent" /\ last.op = "set_frequency"
    /\ last.args = <<PInt(1), PInt(2), Member("FrequencyUnit", "KHZ")>>
    /\ Len(sent) = 1 /\ sent[1].cmd = "C1:BSWV FRQ,2000"

\* The last call passed its guard and handed its command to the transport.
Accepted == Len(sent) = 1 /\ last.outcome \notin ValidationErrors

\* C11: with a valid channel and a numeric value, set_frequency, set_burst_delay
\* and set_burst_period fail with ValueError and send nothing for every negative
\* value, and accept and send every value >= 0, zero included.
NonNegativeOps == {"set_frequency", "set_burst_delay", "set_burst_period"}

C11_NonNegative ==
    (last.op \in NonNegativeOps /\ ChannelOneOrTwo /\ NumberGiven)
        => LET h == Halves(last.args[2])
           IN  /\ h < 0 => (last.outcome = "ValueError" /\ sent = <<>>)
               /\ (h >= 0 /\ (last.op = "set_frequency" => last.args[3] \in FrequencyUnit))
                     => Accepted

C11_Witness ==
    /\ last.op = "set_burst_delay" /\ vendor = "Rigol" /\ last.args[2] = PInt(0)
    /\ last.outcome = "return" /\ Len(sent) = 1

\* C12: set_output_load with OutputLoad.HZ or OutputLoad.INF sends
\* 'OUTP{ch}:LOAD INF' on Rigol and 'C{ch}:OUTP LOAD,HZ' on Siglent, the same
\* token for both symbols within a vendor and different tokens between the
\* vendors; a numeric load is written into the command verbatim.
C12_OutputLoadSentinel ==
    (last.op = "set_output_load" /\ ChannelOneOrTwo)
        => LET ch == Format(last.args[1])
               load == last.args[2]
               token == IF load \in OutputLoad
                        THEN (IF vendor = "Rigol" THEN "INF" ELSE "HZ")
                        ELSE Format(load)
           IN  (load \in OutputLoad \/ load.t \in {"int", "float"})
                   => /\ Len(sent) = 1
                      /\ sent[1].cmd = IF vendor = "Rigol"
                                       THEN "OUTP" \o ch \o ":LOAD " \o token
                                       ELSE "C" \o ch \o ":OUTP LOAD," \o token

C12_Witness ==
    /\ vendor = "Rigol" /\ last.op = "set_output_load"
    /\ last.args[2] = Member("OutputLoad", "HZ")
    /\ Len(sent) = 1 /\ sent[1].cmd = "OUTP1:LOAD INF"

\* The operations that take a symbolic parameter, the argument that carries it
\* and the enumeration declared for it on the vendor in use.
SymbolicOps ==
    {"set_amplitude", "set_frequency", "set_waveform", "set_burst_mode",
     "set_burst_trigger_source"}

SymbolicArg == IF last.op \in {"set_amplitude", "set_frequency"} THEN last.args[3] ELSE last.args[2]

DeclaredEnum ==
    IF last.op = "set_amplitude" THEN AmplitudeUnit
    ELSE IF last.op = "set_frequency" THEN FrequencyUnit
    ELSE IF last.op = "set_waveform" THEN WaveformType
    ELSE IF last.op = "set_burst_trigger_source" THEN BurstTriggerSource
    ELSE IF vendor = "Rigol" THEN BurstModeRigol ELSE BurstModeSiglent

\* The numeric argument that precedes the unit, if any, passes its own checks.
NumberInRange ==
    /\ last.op = "set_amplitude" => (NumberGiven /\ Halves(last.args[2]) \in -20..20)
    /\ last.op = "set_frequency" => (NumberGiven /\ Halves(last.args[2]) >= 0)

PayloadTokens(reply) ==
    LET pieces == Split(reply, " ")
    IN  IF Len(pieces) < 2 THEN <<>> ELSE Split(Strip(pieces[2], "'"), ",")

\* The reply's payload is a list of complete key/value pairs.
IsKeyValueList(reply) ==
    /\ Len(Split(reply, " ")) >= 2
    /\ Len(PayloadTokens(reply)) % 2 = 0
    /\ Len(PayloadTokens(reply)) > 0

\* The values the payload pairs with a wire key.
PairedValues(reply, key) ==
    LET tokens == PayloadTokens(reply)
    IN  {Join(tokens[2 * i]) : i \in {j \in 1..(Len(tokens) \div 2) : Join(tokens[2 * j - 1]) = key}}

\* C14: given a reply whose payload is a comma-delimited key/value list,
\* get_channel_wave_parameter returns, for each of the 8 parameter names, the
\* value paired with its wire key, and fails when that key is absent.
C14_QueryRoundTrip ==
    (/\ last.op = "get_channel_wave_parameter" /\ last.transport = "ok"
     /\ IsKeyValueList(last.response)
     /\ last.args[2].t = "str" /\ last.args[2].s \in DOMAIN result_dict_keys)
        => LET values == PairedValues(last.response, result_dict_keys[last.args[2].s])
           IN  IF values = {}
               THEN last.outcome # "return"
               ELSE last.outcome = "return" /\ last.ret \in {PString(v) : v \in values}

\* C15: get_channel_wave_parameter raises whenever the query fails and whenever
\* the reply has no space-separated payload or a payload whose comma-separated
\* tokens do not pair up into complete key/value pairs; it returns no value then.
C15_UnparsableReplyRaises ==
    (/\ last.op = "get_channel_wave_parameter"
     /\ (last.transport = "failed" \/ ~IsKeyValueList(last.response)))
        => last.outcome # "return"

ValidatesChannel ==
    /\ last.op # ""
    /\ ~(vendor = "Siglent" /\ last.op \in {"sync_phase", "get_channel_wave_parameter"})

\* C17: an operation that validates the channel accepts it only when it is the
\* integer 1 or 2; a boolean (True) or a float (1.0, 2.0) channel fails with
\* InvalidChannelNumber and no command is sent.
C17_ChannelIntegerTyped ==
    ValidatesChannel
        => /\ last.args[1].t \in {"bool", "float"}
                => (last.outcome = "InvalidChannelNumber" /\ sent = <<>>)
           /\ last.outcome # "InvalidChannelNumber" => last.args[1] \in {PInt(1), PInt(2)}

C17_Witness ==
    /\ vendor = "Siglent" /\ last.op = "trigger_burst" /\ last.args[1] = PFloat(4)
    /\ last.outcome = "InvalidChannelNumber" /\ sent = <<>>

\* C18: with a valid channel, set_output and set_burst_state fail with TypeError
\* and send nothing for every state that is not a bool (the integers 0 and 1
\* included), and send True as ON and False as OFF in the vendor's template:
\* 'OUTP{ch} ..', 'SOUR{ch}:BURS ..', 'C{ch}:OUTP ..', 'C{ch}:BTWV STATE,..'.
C18_BooleanState ==
    (last.op \in {"set_output", "set_burst_state"} /\ ChannelOneOrTwo)
        => LET ch == Format(last.args[1])
               state == last.args[2]
               token == IF state = PBool(TRUE) THEN "ON" ELSE "OFF"
               template ==
                   IF vendor = "Rigol"
                   THEN (IF last.op = "set_output" THEN "OUTP" \o ch \o " " \o token
                         ELSE "SOUR" \o ch \o ":BURS " \o token)
                   ELSE (IF last.op = "set_output" THEN "C" \o ch \o ":OUTP " \o token
                         ELSE "C" \o ch \o ":BTWV STATE," \o token)
           IN  IF state \in {PBool(TRUE), PBool(FALSE)}
               THEN Len(sent) = 1 /\ sent[1].cmd = template
               ELSE last.outcome = "TypeError" /\ sent = <<>>

C18_Witness ==
    /\ vendor = "Siglent" /\ last.op = "set_burst_state" /\ last.args[2] = PInt(1)
    /\ last.args[1] = PInt(2) /\ last.outcome = "TypeError" /\ sent = <<>>

NumericOps ==
    {"set_amplitude", "set_frequency", "set_burst_delay", "set_burst_period",
     "set_offset", "set_phase"}

NumberMistyped == last.args[2].t \notin {"int", "float"}

NumberOutOfRange ==
    LET x == last.args[2]
    IN  /\ ~NumberMistyped
        /\ IF IsNaN(x) THEN last.op \in {"set_amplitude", "set_phase"}
           ELSE \/ last.op = "set_amplitude" /\ Halves(x) \notin -20..20
                \/ last.op = "set_phase" /\ Halves(x) \notin -720..720
                \/ last.op \in NonNegativeOps /\ Halves(x) < 0

\* Some argument other than the channel is invalid for the operation called.
OtherArgumentInvalid ==
    \/ last.op \in NumericOps /\ (NumberMistyped \/ NumberOutOfRange)
    \/ last.op \in SymbolicOps /\ SymbolicArg \notin DeclaredEnum
    \/ last.op \in {"set_output", "set_burst_state"} /\ last.args[2].t # "bool"
    \/ last.op = "set_output_load"
          /\ last.args[2].t \notin {"int", "float"} /\ last.args[2] \notin OutputLoad
    \/ last.op = "get_channel_wave_parameter"
          /\ ~(last.args[2].t = "str" /\ last.args[2].s \in DOMAIN result_dict_keys)

\* The error order the guards keep on a call with several invalid arguments.
GuardOrder ==
    /\ (~ChannelOneOrTwo /\ OtherArgumentInvalid) => last.outcome = "InvalidChannelNumber"
    /\ (ChannelOneOrTwo /\ last.op \in NumericOps /\ NumberMistyped)
          => last.outcome = "TypeError"
    /\ (ChannelOneOrTwo /\ last.op \in {"set_amplitude", "set_frequency"}
          /\ NumberOutOfRange /\ SymbolicArg \notin DeclaredEnum)
          => last.outcome = "ValueError"

\* C20: a call with an invalid channel and another invalid argument fails with
\* InvalidChannelNumber, never with TypeError or ValueError; with a valid
\* channel a numeric argument's type error comes before its range error, and
\* its range error before the unit's type error.
C20_ChannelGuardFirst == last.op # "" => GuardOrder

\* The outcome records of a call that reached the transport, as claimed for
\* every such call: one debug record naming the channel and the value on
\* success, one error record on failure.
OneOutcomeRecord ==
    IF last.outcome = "return" /\ last.transport = "ok"
    THEN /\ last.logrec = <<"debug">>
         /\ "channel" \in DebugRecordNames(last.op)
         /\ Len(last.args) >= 2 => "value" \in DebugRecordNames(last.op)
    ELSE last.logrec = <<"error">>

\* C21 as stated: each dispatched call emits exactly one record about its
\* outcome, a debug record naming the channel and value when the transport
\* took the command and an error record when it failed, and a call rejected by
\* validation emits none.
C21_OneOutcomeRecordEveryCall ==
    last.op # ""
        => IF last.transport = "none" THEN last.logrec = <<>> ELSE OneOutcomeRecord

\* C21, amended: the statement holds for every call that writes a command,
\* except that the debug record of sync_phase names no channel; the query
\* get_channel_wave_parameter emits no record when it returns and one error
\* record when the query or the parsing of the reply fails.  The debug record
\* is never emitted for a failed write, nor any record for a rejected call.
C21_OutcomeRecords ==
    last.op # ""
        => /\ last.transport = "none" => last.logrec = <<>>
           /\ last.transport = "failed" => last.logrec = <<"error">>
           /\ (last.transport # "none"
                 /\ last.op \notin {"sync_phase", "get_channel_wave_parameter"})
                 => OneOutcomeRecord
           /\ (last.transport = "ok" /\ last.op = "sync_phase")
                 => (last.logrec = <<"debug">> /\ DebugRecordNames(last.op) = {})
           /\ (last.transport = "ok" /\ last.op = "get_channel_wave_parameter")
                 => last.logrec = IF last.outcome = "return" THEN <<>> ELSE <<"error">>

C21_Witness ==
    /\ vendor = "Rigol" /\ last.op = "set_output" /\ last.transport = "failed"
    /\ last.args = <<PInt(1), PBool(TRUE)>>
    /\ last.logrec = <<"error">> /\ Len(sent) = 1

\* C22: the commands handed to the transport are, in call order, those of
\* exactly the calls that passed validation, failed writes included: a call
\* that follows a failed or rejected call still appends its one command to the
\* unchanged log when it passes validation and leaves the log alone when it
\* does not, and the command is the one the failed call had sent when the call
\* repeats it.
C22_LaterCallsUnaffected ==
    [][(ncalls' = ncalls + 1 /\ ncalls >= 1
          /\ (last.transport = "failed" \/ last.transport = "none"))
          => IF last'.transport = "none" THEN sent' = sent
             ELSE /\ Len(sent') = Len(sent) + 1
                  /\ SubSeq(sent', 1, Len(sent)) = sent
                  /\ (last.transport = "failed" /\ last'.op = last.op
                        /\ last'.args = last.args)
                        => sent'[Len(sent')] = sent[Len(sent)]]_vars

C22_Witness ==
    /\ ncalls = 2 /\ Len(sent) = 1 /\ last.transport = "ok" /\ last.outcome = "return"
    /\ vendor = "Rigol" /\ last.op = "trigger_burst"

\* C23: with a valid channel and an amplitude in range, set_amplitude of both
\* vendors rejects a unit that is not an AmplitudeUnit; Siglent then sends
\* 'C{ch}:BSWV AMP,{amplitude}', the same command for VPP, VRMS and DBM, and
\* Rigol sends 'SOUR{ch}:VOLT {amplitude}{unit}', which ends in the unit's token.
C23_SiglentAmplitudeUnitUnused ==
    (last.op = "set_amplitude" /\ ChannelOneOrTwo /\ NumberInRange)
        => LET ch == Format(last.args[1])
               amplitude == Format(last.args[2])
               unit == last.args[3]
               token == IF unit = Member("AmplitudeUnit", "VPP") THEN "VPP"
                        ELSE IF unit = Member("AmplitudeUnit", "VRMS") THEN "VRMS"
                        ELSE "DBM"
           IN  IF unit \in AmplitudeUnit
               THEN /\ Len(sent) = 1
                    /\ sent[1].cmd = IF vendor = "Siglent"
                                     THEN "C" \o ch \o ":BSWV AMP," \o amplitude
                                     ELSE "SOUR" \o ch \o ":VOLT " \o amplitude \o token
               ELSE last.outcome = "TypeError" /\ sent = <<>>

C23_Witness ==
    /\ vendor = "Siglent" /\ last.op = "set_amplitude"
    /\ last.args = <<PInt(1), PInt(10), Member("AmplitudeUnit", "DBM")>>
    /\ Len(sent) = 1 /\ sent[1].cmd = "C1:BSWV AMP,10"

\* C24: with a valid channel, set_offset and set_output_load accept every int
\* or float value, zero and negative values included, and write it verbatim
\* into the command; a value that is not a number (nor, for set_output_load,
\* an OutputLoad member) fails with TypeError and nothing is sent.
C24_NoRangeCheck ==
    (last.op \in {"set_offset", "set_output_load"} /\ ChannelOneOrTwo)
        => LET ch == Format(last.args[1])
               x == last.args[2]
               template ==
                   IF last.op = "set_offset"
                   THEN (IF vendor = "Rigol" THEN "SOUR" \o ch \o ":VOLT:OFFS "
                         ELSE "C" \o ch \o ":BSWV OFST,")
                   ELSE (IF vendor = "Rigol" THEN "OUTP" \o ch \o ":LOAD "
                         ELSE "C" \o ch \o ":OUTP LOAD,")
           IN  /\ x.t \in {"int", "float"}
                     => /\ Len(sent) = 1
                        /\ sent[1].cmd = template \o Format(x)
                        /\ last.outcome \notin ValidationErrors
               /\ (x.t \notin {"int", "float"}
                     /\ ~(last.op = "set_output_load" /\ x \in OutputLoad))
                     => (last.outcome = "TypeError" /\ sent = <<>>)

C24_Witness ==
    /\ vendor = "Rigol" /\ last.op = "set_offset"
    /\ last.args = <<PInt(1), PInt(-100)>>
    /\ last.outcome = "return" /\ Len(sent) = 1 /\ sent[1].cmd = "SOUR1:VOLT:OFFS -100"

====
